---- MODULE Spec2Model ----
(***************************************************************************)
(* Model of the delivery route planner of shopify-delivery-routing:        *)
(*   delivery_routing/route_planner.py  haversine, _build_distance_matrix,  *)
(*                                      nearest_neighbour_route,            *)
(*                                      total_route_distance                *)
(*   delivery_routing/main.py           main (partition, plan, assemble)    *)
(*   delivery_routing/models.py         DeliveryAddress                     *)
(*   delivery_routing/*_client.py       get_orders,                         *)
(*                                      extract_delivery_addresses          *)
(*                                                                         *)
(* A DeliveryAddress is a record [order_id, latitude, longitude]; the       *)
(* display fields are opaque strings that no modelled operation reads.      *)
(* An Optional[float] coordinate is <<>> (None) or <<v>> (the float v).     *)
(* List indices are 0-based as in the source; At/SetAt implement Python's   *)
(* list indexing, negative indices included.                                *)
(***************************************************************************)
EXTENDS Integers, Sequences, FiniteSets

\* Largest number of addresses in one input list.
MaxStops == 3

\* Largest number of orders in one backend response.
MaxOrders == 3

---------------------------------------------------------------------------
\* Optional[float] coordinates.

None == <<>>

Some(v) == <<v>>

\* Python truthiness of an Optional[float]: None and 0.0 are both falsy.
Truthy(c) == c # None /\ c[1] # 0

\* `c or 0.0`
OrZero(c) == IF Truthy(c) THEN c[1] ELSE 0

\* The coordinate pairs the inputs are drawn from: absent coordinates,
\* coordinates equal to 0, and points at pairwise different distances.
Places ==
    { <<None, None>>, <<None, Some(5)>>, <<Some(1), None>>,
      <<Some(0), Some(0)>>, <<Some(0), Some(1)>>, <<Some(1), Some(0)>>,
      <<Some(1), Some(1)>>, <<Some(1), Some(2)>>, <<Some(1), Some(5)>> }

DeliveryAddress(id, place) ==
    [order_id |-> id, latitude |-> place[1], longitude |-> place[2]]

\* Every list of at most MaxStops addresses; order_id is the position at
\* which the adapter returned the address.
AddressLists ==
    UNION { { [i \in 1..n |-> DeliveryAddress(i, ps[i])] : ps \in [1..n -> Places] }
            : n \in 0..MaxStops }

---------------------------------------------------------------------------
\* Python list indexing on 0-based indices.

PyIndex(i, n) == IF i < 0 THEN i + n ELSE i

At(s, i) == s[PyIndex(i, Len(s)) + 1]

SetAt(s, i, v) == [s EXCEPT ![PyIndex(i, Len(s)) + 1] = v]

---------------------------------------------------------------------------
\* haversine: great-circle distance with _EARTH_RADIUS_KM = 6371.0, tabulated
\* in metres (rounded) on the grid latitude 0..1 x longitude {0, 1, 2, 5}.
\* On this grid the rounded values compare (<, =) exactly as the floats the
\* code computes, and the float function is symmetric in its two points.

GridIndex(lat, lon) ==
    4 * lat + (CASE lon = 0 -> 1 [] lon = 1 -> 2 [] lon = 2 -> 3 [] lon = 5 -> 4)

HaversineTable ==
    << <<0, 111195, 222390, 555975, 111195, 157249, 248629, 566957>>,
       <<111195, 0, 111195, 444780, 157249, 111195, 157249, 458447>>,
       <<222390, 111195, 0, 333585, 248629, 157249, 111195, 351613>>,
       <<555975, 444780, 333585, 0, 566957, 458447, 351613, 111195>>,
       <<111195, 157249, 248629, 566957, 0, 111178, 222356, 555890>>,
       <<157249, 111195, 157249, 458447, 111178, 0, 111178, 444712>>,
       <<248629, 157249, 111195, 351613, 222356, 111178, 0, 333534>>,
       <<566957, 458447, 351613, 111195, 555890, 444712, 333534, 0>> >>

haversine(lat1, lon1, lat2, lon2) ==
    HaversineTable[GridIndex(lat1, lon1)][GridIndex(lat2, lon2)]

\* One evaluation of the metric on the pair (a, b) of addresses, as both
\* _build_distance_matrix and total_route_distance make it: the arguments
\* are `x.latitude or 0.0`, `x.longitude or 0.0`.
HaversineCall(a, b) ==
    LET args == << OrZero(a.latitude), OrZero(a.longitude),
                   OrZero(b.latitude), OrZero(b.longitude) >>
    IN  [ a |-> a, b |-> b, args |-> args,
          d |-> haversine(args[1], args[2], args[3], args[4]) ]

\* Variant: the default is stored back, `x.latitude = x.latitude or 0.0`.
AfterCoordinateReads_DefaultStored(addrs) ==
    [ k \in 1..Len(addrs) |->
        [ addrs[k] EXCEPT !.latitude = Some(OrZero(@)),
                          !.longitude = Some(OrZero(@)) ] ]

\* The list and its addresses after _build_distance_matrix or
\* total_route_distance has gone over it: both only read
\* addresses[i].latitude and addresses[i].longitude; neither assigns to the
\* list, to an element or to a field.
AfterCoordinateReads(addrs) == addrs

---------------------------------------------------------------------------
\* _build_distance_matrix

\* The metric evaluations of row i, for j = from .. n-1, in order.
RECURSIVE RowCalls(_, _, _)
RowCalls(addrs, i, from) ==
    IF from >= Len(addrs) THEN <<>>
    ELSE <<HaversineCall(At(addrs, i), At(addrs, from))>>
             \o RowCalls(addrs, i, from + 1)

\* The metric evaluations of the whole double loop, rows from .. n-1.
RECURSIVE MatrixCalls(_, _)
MatrixCalls(addrs, from) ==
    IF from >= Len(addrs) THEN <<>>
    ELSE RowCalls(addrs, from, from + 1) \o MatrixCalls(addrs, from + 1)

\* Variant: `matrix[j][i] = d` is missing, the lower triangle stays 0.0.
build_distance_matrix_NoMirror(addrs) ==
    [ i \in 1..Len(addrs) |->
        [ j \in 1..Len(addrs) |->
            IF i < j THEN HaversineCall(addrs[i], addrs[j]).d ELSE 0 ] ]

\* matrix[i][j], i and j 0-based: 0.0 on the diagonal, d for i < j and the
\* same d mirrored for j < i.
build_distance_matrix(addrs) ==
    [ i \in 1..Len(addrs) |->
        [ j \in 1..Len(addrs) |->
            IF i = j THEN 0
            ELSE IF i < j THEN HaversineCall(addrs[i], addrs[j]).d
            ELSE HaversineCall(addrs[j], addrs[i]).d ] ]

---------------------------------------------------------------------------
\* total_route_distance

\* The metric evaluations for i = from .. len-2.
RECURSIVE TotalCalls(_, _)
TotalCalls(addrs, from) ==
    IF from >= Len(addrs) - 1 THEN <<>>
    ELSE <<HaversineCall(At(addrs, from), At(addrs, from + 1))>>
             \o TotalCalls(addrs, from + 1)

RECURSIVE SumD(_)
SumD(calls) == IF calls = <<>> THEN 0 ELSE calls[1].d + SumD(Tail(calls))

\* Variant: the loop starts at the second pair, range(1, len - 1).
total_route_distance_SkipFirstLeg(addrs) == SumD(TotalCalls(addrs, 1))

total_route_distance(addrs) == SumD(TotalCalls(addrs, 0))

---------------------------------------------------------------------------
\* nearest_neighbour_route, the pieces of its body

\* Variant: the lower bound of the range check is missing.
StartIndexOutOfRange_NoLowerBound(start, n) == start >= n

\* start_index < 0 or start_index >= n
StartIndexOutOfRange(start, n) == start < 0 \/ start >= n

\* Variant: `<=` for `<`, so that a later equidistant stop replaces the best.
Closer_OrEqual(d, best_dist) == best_dist = None \/ d <= best_dist[1]

\* Variant: `>` for `<`, so that the scan keeps the farthest stop.
Closer_Farther(d, best_dist) == best_dist = None \/ d > best_dist[1]

\* matrix[current][j] < best_dist, where best_dist is float("inf") (None
\* here) until a candidate has been taken.
Closer(d, best_dist) == best_dist = None \/ d < best_dist[1]

\* The inner scan `for j in range(n)` from j = from on; returns best_idx.
RECURSIVE ScanFrom(_, _, _, _, _)
ScanFrom(mat, vis, current, from, best) ==
    IF from >= Len(vis) THEN best.idx
    ELSE IF ~At(vis, from) /\ Closer(At(At(mat, current), from), best.dist)
         THEN ScanFrom(mat, vis, current, from + 1,
                       [dist |-> Some(At(At(mat, current), from)), idx |-> from])
         ELSE ScanFrom(mat, vis, current, from + 1, best)

\* best_dist = float("inf"); best_idx = -1; then the scan.
BestIdx(mat, vis, current) ==
    ScanFrom(mat, vis, current, 0, [dist |-> None, idx |-> -1])

\* Variant: the chosen stop is never marked visited.
MarkVisited_Forgotten(vis, idx) == vis

\* visited[best_idx] = True
MarkVisited(vis, idx) == SetAt(vis, idx, TRUE)

\* [addresses[i] for i in route_indices]
RouteOf(addrs, indices) == [k \in 1..Len(indices) |-> At(addrs, indices[k])]

\* The outer loop `for _ in range(n - 1)` with todo iterations left.
RECURSIVE ExtendRoute(_, _, _, _)
ExtendRoute(mat, vis, indices, todo) ==
    IF todo <= 0 THEN indices
    ELSE LET best_idx == BestIdx(mat, vis, indices[Len(indices)])
         IN  ExtendRoute(mat, MarkVisited(vis, best_idx),
                         Append(indices, best_idx), todo - 1)

\* The value nearest_neighbour_route(addrs, start) returns; the call raises
\* instead when addrs is not empty and start is out of range.
nearest_neighbour_route(addrs, start) ==
    CASE addrs = <<>> -> <<>>
      [] addrs # <<>> /\ ~StartIndexOutOfRange(start, Len(addrs)) ->
           RouteOf(addrs,
                   ExtendRoute(build_distance_matrix(addrs),
                               MarkVisited([k \in 1..Len(addrs) |-> FALSE], start),
                               <<start>>, Len(addrs) - 1))

---------------------------------------------------------------------------
\* main, the pieces of its body

\* Variant: `or` for `and`.
IsRoutable_Either(a) == Truthy(a.latitude) \/ Truthy(a.longitude)

\* a.latitude and a.longitude
IsRoutable(a) == Truthy(a.latitude) /\ Truthy(a.longitude)

Routable(addrs) == SelectSeq(addrs, IsRoutable)

\* Variant: `not a.latitude and not a.longitude`.
NotRoutable_Neither(a) == ~Truthy(a.latitude) /\ ~Truthy(a.longitude)

\* not (a.latitude and a.longitude)
NotRoutable(a) == ~IsRoutable(a)

Unroutable(addrs) == SelectSeq(addrs, NotRoutable)

\* planned + unroutable
FullRoute(plan, rest) == plan \o rest

---------------------------------------------------------------------------
\* _export_csv. A row is << stop, order_name, latitude, longitude >>: the
\* number column, the column that identifies the order (order_id stands for
\* the opaque display fields) and the two coordinate columns, as the text
\* csv.writer puts in the file.

CsvHeader == << "stop", "order_name", "latitude", "longitude" >>

\* str() of a float of the grid, as csv.writer writes it.
FloatStr(v) ==
    CASE v = 0 -> "0.0" [] v = 1 -> "1.0" [] v = 2 -> "2.0" [] v = 5 -> "5.0"

\* The field written for `addr.latitude or ""` / `addr.longitude or ""`.
CsvCoordinate(c) == IF Truthy(c) THEN FloatStr(c[1]) ELSE ""

CsvRow(i, addr) ==
    << i, addr.order_id, CsvCoordinate(addr.latitude),
       CsvCoordinate(addr.longitude) >>

\* Variant: enumerate(addresses) without the start value 1.
export_csv_ZeroBased(addrs) ==
    <<CsvHeader>> \o [i \in 1..Len(addrs) |-> CsvRow(i - 1, addrs[i])]

\* The header row, then one row per address of enumerate(addresses, 1).
export_csv(addrs) ==
    <<CsvHeader>> \o [i \in 1..Len(addrs) |-> CsvRow(i, addrs[i])]

---------------------------------------------------------------------------
\* The platform clients: shopify_client.py, shopee_client.py,
\* lazada_client.py, tiktok_client.py.

Platforms == { "shopify", "shopee", "lazada", "tiktok" }

\* Values of --status: the four generic words and one outside them.
Statuses == { "unfulfilled", "fulfilled", "partial", "any", "cancelled" }

\* The value under an order's address key ("shipping_address",
\* "recipient_address", "address_shipping"): no value (key missing or
\* null), the empty dict, or a dict with fields, whose "latitude" and
\* "longitude" are None when the dict lacks them.
NoAddress == [kind |-> "none", latitude |-> None, longitude |-> None]

EmptyAddress == [kind |-> "empty", latitude |-> None, longitude |-> None]

AddressDict(lat, lon) == [kind |-> "dict", latitude |-> lat, longitude |-> lon]

AddressValues ==
    { NoAddress, EmptyAddress,
      AddressDict(None, None), AddressDict(Some(0), Some(0)),
      AddressDict(Some(1), Some(5)), AddressDict(None, Some(5)) }

\* Every backend response of at most MaxOrders orders; an order's id is its
\* position in the response.
OrderLists ==
    UNION { { [i \in 1..n |-> [id |-> i, address |-> as[i]]] :
                as \in [1..n -> AddressValues] }
            : n \in 0..MaxOrders }

\* _STATUS_MAP of the three clients that have one.
StatusMap(platform) ==
    CASE platform = "shopee" ->
           [ unfulfilled |-> "READY_TO_SHIP", fulfilled |-> "SHIPPED",
             partial |-> "RETRY_SHIP", any |-> "" ]
      [] platform = "lazada" ->
           [ unfulfilled |-> "pending", fulfilled |-> "delivered",
             partial |-> "shipped", any |-> "" ]
      [] platform = "tiktok" ->
           [ unfulfilled |-> "AWAITING_SHIPMENT", fulfilled |-> "DELIVERED",
             partial |-> "IN_TRANSIT", any |-> "" ]

\* Variant: `_STATUS_MAP.get(status, status)`.
NativeStatus_PassThrough(platform, status) ==
    IF status \in DOMAIN StatusMap(platform)
    THEN StatusMap(platform)[status] ELSE status

\* _STATUS_MAP.get(status, "")
NativeStatus(platform, status) ==
    IF status \in DOMAIN StatusMap(platform)
    THEN StatusMap(platform)[status] ELSE ""

\* The name of the request parameter that carries the native status.
StatusKey(platform) ==
    CASE platform = "shopify" -> "fulfillment_status"
      [] platform = "shopee" -> "order_status"
      [] platform = "lazada" -> "status"
      [] platform = "tiktok" -> "order_status"

\* The status parameters get_orders puts in its request, as a set of
\* << name, value >> pairs (paging, sorting and time-range parameters, which
\* do not depend on status, are left out). Shopify passes the word through
\* next to a fixed "status": "any"; the others add the native status when
\* it is not the empty string.
RequestParams(platform, status) ==
    IF platform = "shopify"
    THEN { << "status", "any" >>, << "fulfillment_status", status >> }
    ELSE IF NativeStatus(platform, status) # ""
         THEN { << StatusKey(platform), NativeStatus(platform, status) >> }
         ELSE {}

\* Variant: `if shipping is None`, so that an empty dict is not skipped.
SkipsOrder_NoneOnly(address) == address.kind = "none"

\* `if not shipping: continue` (`if not recipient`, `if not address_shipping`)
SkipsOrder(address) == address.kind # "dict"

\* The DeliveryAddress built for an order: Shopify takes
\* shipping.get("latitude") and shipping.get("longitude"), the other three
\* clients pass latitude=None, longitude=None.
StopOf(platform, order) ==
    IF platform = "shopify"
    THEN DeliveryAddress(order.id, << order.address.latitude,
                                      order.address.longitude >>)
    ELSE DeliveryAddress(order.id, << None, None >>)

\* The loop `for order in orders` of extract_delivery_addresses.
RECURSIVE ExtractFrom(_, _)
ExtractFrom(platform, os) ==
    IF os = <<>> THEN <<>>
    ELSE IF SkipsOrder(os[1].address) THEN ExtractFrom(platform, Tail(os))
    ELSE <<StopOf(platform, os[1])>> \o ExtractFrom(platform, Tail(os))

---------------------------------------------------------------------------
VARIABLES
    addresses,      \* main: what extract_delivery_addresses returned; also
                    \* the list a direct caller passes to the engine
    pc,             \* position of the run
    caller,         \* who called the engine: "none", "main", "nn", "total",
                    \* "matrix"
    nn_addresses,   \* nearest_neighbour_route: parameter addresses
    start_index,    \* nearest_neighbour_route: parameter start_index
    matrix,         \* nearest_neighbour_route: matrix
    visited,        \* nearest_neighbour_route: visited
    route_indices,  \* nearest_neighbour_route: route_indices
    iterations,     \* nearest_neighbour_route: iterations of the outer loop done
    result,         \* nearest_neighbour_route: returned list
    outcome,        \* "none", "returned", "ValueError", "exit0", "printed"
    calls,          \* every evaluation of haversine so far, in order
    routable,       \* main: routable
    unroutable,     \* main: unroutable
    planned,        \* main: planned
    total_km,       \* main: total_km
    full_route,     \* main: full_route
    distance,       \* return value of a direct total_route_distance call
    args_csv,       \* main: whether --csv FILE was given (args.csv)
    csv_file,       \* _export_csv: the rows written to FILE, header first
    platform,       \* the client: which platform it talks to
    status,         \* the client: parameter status
    orders,         \* the backend: the orders its response carries
    request,        \* get_orders: the status parameters of the request sent
    fetched,        \* get_orders: returned list of orders
    extracted,      \* extract_delivery_addresses: returned list
    apc             \* position of the client: "rest", "start", "fetched",
                    \* "done"

engineVars ==
    << addresses, pc, caller, nn_addresses, start_index, matrix, visited,
       route_indices, iterations, result, outcome, calls, routable,
       unroutable, planned, total_km, full_route, distance, args_csv,
       csv_file >>

adapterVars == << platform, status, orders, request, fetched, extracted, apc >>

vars == << engineVars, adapterVars >>

nnLocals == << matrix, visited, route_indices, iterations >>

mainLocals == << routable, unroutable, planned, total_km, full_route >>

csvVars == << args_csv, csv_file >>

\* start_index values a direct caller may pass: below, inside and above the
\* valid range of every list length.
StartIndices == -1 .. MaxStops

\* The planner before any call.
EngineAtRest ==
    /\ pc = "idle"
    /\ caller = "none"
    /\ nn_addresses = <<>>
    /\ start_index = 0
    /\ matrix = <<>>
    /\ visited = <<>>
    /\ route_indices = <<>>
    /\ iterations = 0
    /\ result = <<>>
    /\ outcome = "none"
    /\ calls = <<>>
    /\ routable = <<>>
    /\ unroutable = <<>>
    /\ planned = <<>>
    /\ total_km = 0
    /\ full_route = <<>>
    /\ distance = 0
    /\ args_csv = FALSE
    /\ csv_file = <<>>

\* No client call is under way.
AdapterAtRest ==
    /\ platform = "shopify"
    /\ status = "unfulfilled"
    /\ orders = <<>>
    /\ request = {}
    /\ fetched = <<>>
    /\ extracted = <<>>
    /\ apc = "rest"

Init ==
    /\ addresses \in AddressLists
    /\ EngineAtRest
    /\ AdapterAtRest

\* A client of some platform is about to be asked for the addresses of the
\* orders of some status, the backend holding some orders.
AdapterInit ==
    /\ addresses = <<>>
    /\ EngineAtRest
    /\ platform \in Platforms
    /\ status \in Statuses
    /\ orders \in OrderLists
    /\ request = {}
    /\ fetched = <<>>
    /\ extracted = <<>>
    /\ apc = "start"

---------------------------------------------------------------------------
\* main: from the return of extract_delivery_addresses to the call of
\* nearest_neighbour_route (or to the else branch when nothing is routable).
\* nearest_neighbour_route(routable) leaves start_index at its default 0.
\* csv tells whether the command line carries --csv FILE.
Main(csv) ==
    /\ pc = "idle"
    /\ caller' = "main"
    /\ args_csv' = csv
    /\ UNCHANGED csv_file
    /\ IF addresses = <<>>
       THEN /\ pc' = "done"
            /\ outcome' = "exit0"
            /\ UNCHANGED << nn_addresses, start_index, mainLocals >>
       ELSE /\ routable' = Routable(addresses)
            /\ unroutable' = Unroutable(addresses)
            /\ UNCHANGED << full_route, outcome >>
            /\ IF routable' # <<>>
               THEN /\ nn_addresses' = routable'
                    /\ start_index' = 0
                    /\ pc' = "nn_enter"
                    /\ UNCHANGED << planned, total_km >>
               ELSE /\ planned' = <<>>
                    /\ total_km' = 0
                    /\ pc' = "assemble"
                    /\ UNCHANGED << nn_addresses, start_index >>
    /\ UNCHANGED << addresses, nnLocals, result, calls, distance >>
    /\ UNCHANGED adapterVars

\* A caller other than main calls nearest_neighbour_route(addresses, start).
CallNearestNeighbour(start) ==
    /\ pc = "idle"
    /\ caller' = "nn"
    /\ nn_addresses' = addresses
    /\ start_index' = start
    /\ pc' = "nn_enter"
    /\ UNCHANGED << addresses, nnLocals, result, outcome, calls, mainLocals,
                    distance >>
    /\ UNCHANGED csvVars
    /\ UNCHANGED adapterVars

\* nearest_neighbour_route, lines 55-65: the empty check, the range check,
\* the matrix and the seeding of the route.
NNEnter ==
    /\ pc = "nn_enter"
    /\ IF nn_addresses = <<>>
       THEN /\ result' = <<>>
            /\ outcome' = "returned"
            /\ pc' = IF caller = "main" THEN "main_total" ELSE "done"
            /\ UNCHANGED << nn_addresses, nnLocals, calls >>
       ELSE IF StartIndexOutOfRange(start_index, Len(nn_addresses))
       THEN /\ outcome' = "ValueError"
            /\ pc' = "done"
            /\ UNCHANGED << nn_addresses, nnLocals, calls, result >>
       ELSE /\ matrix' = build_distance_matrix(nn_addresses)
            /\ calls' = calls \o MatrixCalls(nn_addresses, 0)
            /\ nn_addresses' = AfterCoordinateReads(nn_addresses)
            /\ visited' = MarkVisited([k \in 1..Len(nn_addresses) |-> FALSE],
                                      start_index)
            /\ route_indices' = <<start_index>>
            /\ iterations' = 0
            /\ pc' = "nn_loop"
            /\ UNCHANGED << result, outcome >>
    /\ UNCHANGED << addresses, caller, start_index, mainLocals, distance >>
    /\ UNCHANGED csvVars
    /\ UNCHANGED adapterVars

\* One iteration of `for _ in range(n - 1)`.
NNIterate ==
    /\ pc = "nn_loop"
    /\ iterations < Len(nn_addresses) - 1
    /\ LET current  == route_indices[Len(route_indices)]
           best_idx == BestIdx(matrix, visited, current)
       IN  /\ visited' = MarkVisited(visited, best_idx)
           /\ route_indices' = Append(route_indices, best_idx)
    /\ iterations' = iterations + 1
    /\ UNCHANGED << addresses, pc, caller, nn_addresses, start_index, matrix,
                    result, outcome, calls, mainLocals, distance >>
    /\ UNCHANGED csvVars
    /\ UNCHANGED adapterVars

\* The loop is exhausted: return [addresses[i] for i in route_indices].
NNReturn ==
    /\ pc = "nn_loop"
    /\ iterations >= Len(nn_addresses) - 1
    /\ result' = RouteOf(nn_addresses, route_indices)
    /\ outcome' = "returned"
    /\ pc' = IF caller = "main" THEN "main_total" ELSE "done"
    /\ UNCHANGED << addresses, caller, nn_addresses, start_index, nnLocals,
                    calls, mainLocals, distance >>
    /\ UNCHANGED csvVars
    /\ UNCHANGED adapterVars

\* main: planned = <returned route>; total_km = total_route_distance(planned)
MainTotal ==
    /\ pc = "main_total"
    /\ planned' = AfterCoordinateReads(result)
    /\ total_km' = total_route_distance(result)
    /\ calls' = calls \o TotalCalls(result, 0)
    /\ pc' = "assemble"
    /\ UNCHANGED << addresses, caller, nn_addresses, start_index, nnLocals,
                    result, outcome, routable, unroutable, full_route,
                    distance >>
    /\ UNCHANGED csvVars
    /\ UNCHANGED adapterVars

\* main: full_route = planned + unroutable; _print_route(full_route, total_km)
MainAssemble ==
    /\ pc = "assemble"
    /\ full_route' = FullRoute(planned, unroutable)
    /\ outcome' = "printed"
    /\ pc' = IF args_csv THEN "export" ELSE "done"
    /\ UNCHANGED << addresses, caller, nn_addresses, start_index, nnLocals,
                    result, calls, routable, unroutable, planned, total_km,
                    distance >>
    /\ UNCHANGED csvVars
    /\ UNCHANGED adapterVars

\* main: if args.csv: _export_csv(full_route, args.csv)
MainExport ==
    /\ pc = "export"
    /\ csv_file' = export_csv(full_route)
    /\ pc' = "done"
    /\ UNCHANGED << addresses, caller, nn_addresses, start_index, nnLocals,
                    result, outcome, calls, mainLocals, distance, args_csv >>
    /\ UNCHANGED adapterVars

\* A caller other than main calls total_route_distance(addresses).
CallTotalRouteDistance ==
    /\ pc = "idle"
    /\ caller' = "total"
    /\ distance' = total_route_distance(addresses)
    /\ calls' = calls \o TotalCalls(addresses, 0)
    /\ addresses' = AfterCoordinateReads(addresses)
    /\ outcome' = "returned"
    /\ pc' = "done"
    /\ UNCHANGED << nn_addresses, start_index, nnLocals, result, mainLocals >>
    /\ UNCHANGED csvVars
    /\ UNCHANGED adapterVars

\* A caller other than nearest_neighbour_route calls
\* _build_distance_matrix(addresses).
CallBuildDistanceMatrix ==
    /\ pc = "idle"
    /\ caller' = "matrix"
    /\ matrix' = build_distance_matrix(addresses)
    /\ calls' = calls \o MatrixCalls(addresses, 0)
    /\ addresses' = AfterCoordinateReads(addresses)
    /\ outcome' = "returned"
    /\ pc' = "done"
    /\ UNCHANGED << nn_addresses, start_index, visited, route_indices,
                    iterations, result, mainLocals, distance >>
    /\ UNCHANGED csvVars
    /\ UNCHANGED adapterVars

Next ==
    \/ \E csv \in BOOLEAN : Main(csv)
    \/ \E start \in StartIndices : CallNearestNeighbour(start)
    \/ NNEnter
    \/ NNIterate
    \/ NNReturn
    \/ MainTotal
    \/ MainAssemble
    \/ MainExport
    \/ CallTotalRouteDistance
    \/ CallBuildDistanceMatrix

Spec == Init /\ [][Next]_vars

\* extract_delivery_addresses, first line: orders = self.get_orders(status):
\* the request is built and sent, the orders of the response are returned.
GetOrders ==
    /\ apc = "start"
    /\ request' = RequestParams(platform, status)
    /\ fetched' = orders
    /\ apc' = "fetched"
    /\ UNCHANGED << platform, status, orders, extracted >>
    /\ UNCHANGED engineVars

\* extract_delivery_addresses, the loop over the orders and the return.
ExtractDeliveryAddresses ==
    /\ apc = "fetched"
    /\ extracted' = ExtractFrom(platform, fetched)
    /\ apc' = "done"
    /\ UNCHANGED << platform, status, orders, request, fetched >>
    /\ UNCHANGED engineVars

AdapterNext ==
    \/ GetOrders
    \/ ExtractDeliveryAddresses

AdapterSpec == AdapterInit /\ [][AdapterNext]_vars

\* The calls are synchronous and single-threaded: a call that has started
\* runs on until it returns or raises.
FairSpec == Spec /\ WF_vars(NNEnter) /\ WF_vars(NNIterate) /\ WF_vars(NNReturn)

---------------------------------------------------------------------------
\* Vocabulary of the properties.

\* Both coordinates are present (whatever their value).
IsGeocoded(a) == a.latitude # None /\ a.longitude # None

NotGeocoded(a) == ~IsGeocoded(a)

Count(s, x) == Cardinality({ k \in 1..Len(s) : s[k] = x })

\* s and t hold the same elements with the same multiplicities.
IsPermutation(s, t) ==
    /\ Len(s) = Len(t)
    /\ \A k \in 1..Len(t) : Count(s, t[k]) = Count(t, t[k])
    /\ \A k \in 1..Len(s) : Count(t, s[k]) = Count(s, s[k])

\* nearest_neighbour_route has returned to its caller.
NNReturned == caller \in {"nn", "main"} /\ outcome = "returned"

\* A direct call of nearest_neighbour_route has ended, by return or raise.
NNCallEnded == caller = "nn" /\ pc = "done"

\* main has assembled and printed the final route.
MainPrinted == caller = "main" /\ outcome = "printed"

---------------------------------------------------------------------------
\* C1: whenever nearest_neighbour_route returns (so for every list of
\* n >= 0 stops and every valid start_index), the returned list is a
\* permutation of the parameter list: every input stop exactly once and
\* nothing else.
C1_RouteIsPermutation ==
    NNReturned => IsPermutation(result, nn_addresses)

\* A direct call returned a route of at least three stops in an order
\* different from the input order, starting from a stop other than the first.
C1_Witness ==
    /\ NNReturned
    /\ caller = "nn"
    /\ Len(result) >= 3
    /\ start_index > 0
    /\ result # nn_addresses

---------------------------------------------------------------------------
\* C2: after main's partition, an address is in routable exactly when both
\* its latitude and its longitude are present (a present 0 included), and in
\* unroutable otherwise.
C2_PartitionByPresence ==
    (caller = "main" /\ pc # "idle" /\ addresses # <<>>) =>
        \A k \in 1..Len(addresses) :
            /\ IsGeocoded(addresses[k]) <=> Count(routable, addresses[k]) = 1
            /\ NotGeocoded(addresses[k]) <=> Count(unroutable, addresses[k]) = 1

---------------------------------------------------------------------------
\* C3: the metric is never evaluated on an address with an absent latitude
\* or longitude, and every argument passed to it is the address's own
\* coordinate, never a substituted default.
C3_MetricOnlyOnGeocoded ==
    \A k \in 1..Len(calls) :
        /\ IsGeocoded(calls[k].a)
        /\ IsGeocoded(calls[k].b)
        /\ calls[k].args = << calls[k].a.latitude[1], calls[k].a.longitude[1],
                              calls[k].b.latitude[1], calls[k].b.longitude[1] >>

---------------------------------------------------------------------------
\* C4: a call of nearest_neighbour_route on n > 0 stops with start_index < 0
\* or start_index >= n ends in ValueError with no metric evaluation and no
\* route (not even a seeded one); a call on n = 0 stops returns the empty
\* route for every start_index.
C4_StartIndexValidated ==
    NNCallEnded =>
        /\ (nn_addresses # <<>>
              /\ (start_index < 0 \/ start_index >= Len(nn_addresses)))
           => /\ outcome = "ValueError"
              /\ calls = <<>>
              /\ result = <<>>
              /\ route_indices = <<>>
        /\ nn_addresses = <<>>
           => /\ outcome = "returned"
              /\ result = <<>>

\* A call on a non-empty list with a negative start_index has raised.
C4_Witness ==
    /\ NNCallEnded
    /\ Len(nn_addresses) >= 2
    /\ start_index < 0
    /\ outcome = "ValueError"

---------------------------------------------------------------------------
\* C5: the final route is a block of geocoded stops followed by exactly the
\* ungeocoded stops of the input in their input order, and it holds every
\* input stop exactly once.
C5_GeocodedThenUngeocoded ==
    MainPrinted =>
        LET rest == SelectSeq(addresses, NotGeocoded)
            g    == Len(full_route) - Len(rest)
        IN  /\ g >= 0
            /\ SubSeq(full_route, g + 1, Len(full_route)) = rest
            /\ \A k \in 1..g : IsGeocoded(full_route[k])
            /\ IsPermutation(full_route, addresses)

---------------------------------------------------------------------------
\* The distance between two geocoded addresses, from their own coordinates.
OwnDistance(a, b) ==
    haversine(a.latitude[1], a.longitude[1], b.latitude[1], b.longitude[1])

RECURSIVE LegSum(_)
LegSum(s) ==
    IF Len(s) <= 1 THEN 0 ELSE OwnDistance(s[1], s[2]) + LegSum(Tail(s))

\* The total main computes for an input list.
TotalOfInput(addrs) ==
    total_route_distance(nearest_neighbour_route(Routable(addrs), 0))

---------------------------------------------------------------------------
\* The greedy choice at position k (1-based, k >= 2) of route_indices.

\* The indices not placed at positions 1..k-1.
Unplaced(k) ==
    { j \in 0..(Len(nn_addresses) - 1) :
        \A m \in 1..(k - 1) : PyIndex(route_indices[m], Len(nn_addresses)) # j }

\* matrix[route_indices[k-1]][j]
FromPrevious(k, j) == At(At(matrix, route_indices[k - 1]), j)

\* The unplaced indices at minimal distance from the stop at position k-1.
Nearest(k) ==
    { j \in Unplaced(k) :
        \A i \in Unplaced(k) : FromPrevious(k, j) <= FromPrevious(k, i) }

Lowest(S) == CHOOSE j \in S : \A i \in S : j <= i

\* C7: at every position of the route where two or more unplaced stops were
\* at the same minimal distance from the previous stop, the stop placed is
\* the one of lowest original index among them.
C7_TieToLowestIndex ==
    \A k \in 2..Len(route_indices) :
        Cardinality(Nearest(k)) >= 2 => route_indices[k] = Lowest(Nearest(k))

\* A returned route in which two or more unplaced stops were equally near
\* the previous stop, at a non-zero distance.
C7_Witness ==
    /\ NNReturned
    /\ \E k \in 2..Len(route_indices) :
          /\ Cardinality(Nearest(k)) >= 2
          /\ FromPrevious(k, route_indices[k]) > 0

---------------------------------------------------------------------------
\* C8: at every position k >= 1 (0-based) of the route, the stop placed was
\* not placed before and has the minimum matrix distance from the stop at
\* position k-1 among all stops not placed before; the returned route lists
\* the stops in that order.
C8_EachStepNearest ==
    /\ \A k \in 2..Len(route_indices) : route_indices[k] \in Nearest(k)
    /\ NNReturned =>
          /\ Len(result) = Len(route_indices)
          /\ \A k \in 1..Len(result) :
                result[k] = nn_addresses[route_indices[k] + 1]

\* A returned route where the nearest stop was strictly nearer than another
\* unplaced stop and was not the unplaced stop of lowest index.
C8_Witness ==
    /\ NNReturned
    /\ \E k \in 2..Len(route_indices) :
          /\ Nearest(k) # Unplaced(k)
          /\ route_indices[k] # Lowest(Unplaced(k))

---------------------------------------------------------------------------
\* main passes no start_index to nearest_neighbour_route: the parameter's
\* default applies.
DefaultStartIndex == 0

\* C9: whenever some input stop is geocoded, the final route begins with the
\* geocoded stop at start_index of the geocoded subset, which without a
\* caller-supplied start_index is the first geocoded stop in input order.
C9_RouteBeginsAtFirstGeocoded ==
    (MainPrinted /\ \E k \in 1..Len(addresses) : IsGeocoded(addresses[k])) =>
        full_route[1] = SelectSeq(addresses, IsGeocoded)[DefaultStartIndex + 1]

---------------------------------------------------------------------------
\* C10 as stated: for every input without a geocoded stop, the input of
\* zero stops included, main produces a result with an empty routed
\* segment, total 0 and the ungeocoded stops in input order as final route;
\* for an input of exactly one stop, geocoded, the route is that stop and
\* the total is 0.
C10_DegenerateInputs ==
    (caller = "main" /\ pc = "done") =>
        /\ (\A k \in 1..Len(addresses) : NotGeocoded(addresses[k]))
           => /\ outcome = "printed"
              /\ planned = <<>>
              /\ total_km = 0
              /\ full_route = addresses
        /\ (Len(addresses) = 1 /\ IsGeocoded(addresses[1]))
           => /\ outcome = "printed"
              /\ full_route = addresses
              /\ total_km = 0

\* C10 as amended: the same for every non-empty input; on the input of zero
\* stops main exits with status 0 before any route is assembled or printed.
C10_DegenerateInputsNonEmpty ==
    (caller = "main" /\ pc = "done") =>
        /\ (addresses # <<>>
              /\ \A k \in 1..Len(addresses) : NotGeocoded(addresses[k]))
           => /\ outcome = "printed"
              /\ planned = <<>>
              /\ total_km = 0
              /\ full_route = addresses
        /\ (Len(addresses) = 1 /\ IsGeocoded(addresses[1]))
           => /\ outcome = "printed"
              /\ full_route = addresses
              /\ total_km = 0
        /\ addresses = <<>>
           => /\ outcome = "exit0"
              /\ calls = <<>>

\* main has printed a route for an input of two or more stops, none of them
\* geocoded, not all missing the same coordinates.
C10_Witness ==
    /\ MainPrinted
    /\ Len(addresses) >= 2
    /\ \A k \in 1..Len(addresses) : NotGeocoded(addresses[k])
    /\ \E k \in 1..Len(addresses) : addresses[k].longitude # None

---------------------------------------------------------------------------
\* The metric on a pair of addresses as the engine applies it.
PairDistance(a, b) ==
    haversine(OrZero(a.latitude), OrZero(a.longitude),
              OrZero(b.latitude), OrZero(b.longitude))

RECURSIVE PairSum(_)
PairSum(s) ==
    IF Len(s) <= 1 THEN 0 ELSE PairDistance(s[1], s[2]) + PairSum(Tail(s))

\* A direct call of total_route_distance has ended.
TotalCallEnded == caller = "total" /\ pc = "done"

\* C11: total_route_distance returns, for every length, the sum of the
\* metric over the consecutive pairs (i, i+1) of its argument, evaluated
\* once each and in order, and returns exactly 0 with no evaluation for a
\* list of length 0 or 1.
C11_TotalIsSumOfConsecutiveLegs ==
    TotalCallEnded =>
        /\ outcome = "returned"
        /\ distance = PairSum(addresses)
        /\ Len(calls) = (IF addresses = <<>> THEN 0 ELSE Len(addresses) - 1)
        /\ \A k \in 1..Len(calls) :
              /\ calls[k].a = addresses[k]
              /\ calls[k].b = addresses[k + 1]
        /\ Len(addresses) <= 1 => distance = 0

\* A call on three stops or more whose first leg and second leg both have
\* a non-zero length.
C11_Witness ==
    /\ TotalCallEnded
    /\ Len(addresses) >= 3
    /\ calls[1].d > 0
    /\ calls[2].d > 0
    /\ distance = calls[1].d + calls[2].d

---------------------------------------------------------------------------
\* main has written the CSV file.
MainExported == caller = "main" /\ pc = "done" /\ args_csv /\ outcome = "printed"

\* C13: the CSV file holds the header row and then exactly one row per stop
\* of the final route, in final-route order, whose first column is the
\* 1-based position of the stop.
C13_CsvOneRowPerStop ==
    MainExported =>
        /\ Len(csv_file) = Len(full_route) + 1
        /\ csv_file[1] = CsvHeader
        /\ \A k \in 1..Len(full_route) :
              /\ csv_file[k + 1][1] = k
              /\ csv_file[k + 1][2] = full_route[k].order_id

\* A file written for a final route of three stops or more, with a routed
\* segment and a tail, in an order different from the input order.
C13_Witness ==
    /\ MainExported
    /\ Len(full_route) >= 3
    /\ planned # <<>>
    /\ unroutable # <<>>
    /\ full_route # addresses

---------------------------------------------------------------------------
\* C14: in the CSV file the latitude and longitude columns of the row of an
\* ungeocoded stop are both empty, and those of a geocoded stop both carry
\* its coordinates.
C14_CsvCoordinateColumns ==
    MainExported =>
        \A k \in 1..Len(full_route) :
            LET a   == full_route[k]
                row == csv_file[k + 1]
            IN  /\ NotGeocoded(a) => (row[3] = "" /\ row[4] = "")
                /\ IsGeocoded(a) =>
                      /\ row[3] = FloatStr(a.latitude[1])
                      /\ row[4] = FloatStr(a.longitude[1])

---------------------------------------------------------------------------
\* C16: no step of the routing engine changes a list passed to it or a
\* field of its stops: the caller's list stays as it is through every call
\* (returning or raising), the parameter of nearest_neighbour_route stays as
\* passed from the call on, and the route main hands to
\* total_route_distance comes back as it was returned.
C16_InputsNotMutated ==
    [][ /\ addresses' = addresses
        /\ pc # "idle" => nn_addresses' = nn_addresses
        /\ pc = "main_total" => planned' = result ]_vars

\* A direct call of nearest_neighbour_route has returned for a list of two
\* stops or more with an absent coordinate, for which the metric was given
\* the default 0, and the parameter still equals the caller's list.
C16_Witness ==
    /\ NNReturned
    /\ caller = "nn"
    /\ Len(nn_addresses) >= 2
    /\ \E k \in 1..Len(nn_addresses) : nn_addresses[k].latitude = None
    /\ calls # <<>>
    /\ nn_addresses = addresses

---------------------------------------------------------------------------
\* The greedy loop of nearest_neighbour_route.

InLoop == pc = "nn_loop"

\* The index appended by the iteration that has just run.
LastPlaced == route_indices[Len(route_indices)]

\* At the start and end of every iteration: iterations counts the stops
\* appended and never exceeds n-1; visited is true exactly for the indices
\* of the route; these are real indices, pairwise distinct.
LoopInvariant ==
    InLoop =>
        LET n == Len(nn_addresses)
        IN  /\ n >= 1
            /\ Len(visited) = n
            /\ Len(route_indices) = iterations + 1
            /\ iterations <= n - 1
            /\ \A m \in 1..Len(route_indices) : route_indices[m] \in 0..(n - 1)
            /\ \A m, k \in 1..Len(route_indices) :
                  route_indices[m] = route_indices[k] => m = k
            /\ \A j \in 0..(n - 1) :
                  visited[j + 1] <=>
                      \E m \in 1..Len(route_indices) : route_indices[m] = j

\* An iteration selects an index that is real and was unvisited.
IterationSelectsUnvisited ==
    (InLoop /\ iterations' = iterations + 1) =>
        /\ LastPlaced' \in 0..(Len(nn_addresses) - 1)
        /\ ~visited[LastPlaced' + 1]
        /\ visited'[LastPlaced' + 1]

\* At the return from a non-empty list: n-1 iterations were run, every stop
\* is visited and the result has length n.
LoopExit ==
    (NNReturned /\ nn_addresses # <<>>) =>
        /\ iterations = Len(nn_addresses) - 1
        /\ \A j \in 1..Len(visited) : visited[j]
        /\ Len(result) = Len(nn_addresses)

\* C17: for n >= 1 stops and a valid start_index the loop keeps
\* LoopInvariant, every iteration selects a real unvisited index, the loop
\* is left (it terminates) after exactly n-1 iterations with all n stops
\* visited and a result of length n.
C17_LoopRunsNMinusOneIterations ==
    /\ []LoopInvariant
    /\ [][IterationSelectsUnvisited]_vars
    /\ []LoopExit
    /\ InLoop ~> (NNReturned /\ nn_addresses # <<>>)

\* A direct call has left the loop after two iterations or more, started
\* from a stop other than the first.
C17_Witness ==
    /\ NNReturned
    /\ caller = "nn"
    /\ iterations >= 2
    /\ iterations = Len(nn_addresses) - 1
    /\ start_index > 0

---------------------------------------------------------------------------
\* _build_distance_matrix has returned matrix for the list MatrixInput.
MatrixBuilt == (caller = "matrix" /\ pc = "done") \/ InLoop

MatrixInput == IF caller = "matrix" THEN addresses ELSE nn_addresses

\* The evaluations of the metric on the pair (a, b), in that order.
CallsOn(a, b) == { k \in 1..Len(calls) : calls[k].a = a /\ calls[k].b = b }

\* C18: the matrix is n by n (0 by 0 for n = 0), indexed in input order,
\* symmetric with a zero diagonal; the metric was evaluated exactly once for
\* every pair i < j, whose value fills matrix[i][j], and never for a pair
\* i >= j.
C18_MatrixSymmetricZeroDiagonal ==
    MatrixBuilt =>
        LET L == MatrixInput
            n == Len(L)
        IN  /\ Len(matrix) = n
            /\ \A i \in 1..n : Len(matrix[i]) = n /\ matrix[i][i] = 0
            /\ \A i, j \in 1..n : matrix[i][j] = matrix[j][i]
            /\ 2 * Len(calls) = n * (n - 1)
            /\ \A i, j \in 1..n :
                  IF i < j
                  THEN /\ Cardinality(CallsOn(L[i], L[j])) = 1
                       /\ \A k \in CallsOn(L[i], L[j]) : matrix[i][j] = calls[k].d
                  ELSE CallsOn(L[i], L[j]) = {}

\* A direct call on three stops or more at pairwise different non-zero
\* distances.
C18_Witness ==
    /\ caller = "matrix"
    /\ pc = "done"
    /\ Len(addresses) >= 3
    /\ matrix[1][2] > 0
    /\ matrix[1][3] > matrix[1][2]
    /\ matrix[2][3] > matrix[1][3]

---------------------------------------------------------------------------
\* The fetched orders that have a non-empty address.
WithAddress == { k \in 1..Len(fetched) : fetched[k].address.kind = "dict" }

\* C15: extract_delivery_addresses returns exactly one stop for each
\* fetched order with a non-empty address, in fetch order, none for the
\* other orders, and a returned stop has a latitude or longitude only when
\* the order's address carries it, with that value.
C15_OneStopPerAddressedOrder ==
    apc = "done" =>
        /\ Len(extracted) = Cardinality(WithAddress)
        /\ \A m \in 1..Len(extracted) : extracted[m].order_id \in WithAddress
        /\ \A k \in WithAddress :
              \E m \in 1..Len(extracted) : extracted[m].order_id = fetched[k].id
        /\ \A m, l \in 1..Len(extracted) :
              m < l => extracted[m].order_id < extracted[l].order_id
        /\ \A m \in 1..Len(extracted) :
              LET address == fetched[extracted[m].order_id].address
              IN  /\ extracted[m].latitude # None
                       => extracted[m].latitude = address.latitude
                  /\ extracted[m].longitude # None
                       => extracted[m].longitude = address.longitude

\* The Shopify client has returned the stops of the first and third of
\* three orders, the second having an empty address, the first with its
\* coordinates.
C15_Witness ==
    /\ apc = "done"
    /\ platform = "shopify"
    /\ Len(fetched) >= 3
    /\ fetched[2].address = EmptyAddress
    /\ Len(extracted) >= 2
    /\ extracted[1].latitude # None
    /\ extracted[2].order_id = fetched[3].id

---------------------------------------------------------------------------
\* The three words that restrict the orders.
RestrictingWords == { "unfulfilled", "fulfilled", "partial" }

Vocabulary == RestrictingWords \cup { "any" }

\* The native statuses the request restricts the orders to: the values sent
\* under the platform's status parameter, Shopify's native "any" meaning no
\* restriction.
Restriction ==
    { p[2] : p \in { q \in request : q[1] = StatusKey(platform) } }
        \ (IF platform = "shopify" THEN { "any" } ELSE {})

\* C19: the request of get_orders carries one non-empty native status for
\* each of 'unfulfilled', 'fulfilled' and 'partial', a different one for
\* each word, and no status restriction for 'any'; the Shopee, Lazada and
\* TikTok clients send no status restriction either for a word outside the
\* vocabulary, and return the orders as for 'any'.
C19_StatusMappedToNative ==
    apc \in { "fetched", "done" } =>
        /\ status \in RestrictingWords =>
              /\ Cardinality(Restriction) = 1
              /\ "" \notin Restriction
        /\ \A v, w \in RestrictingWords :
              v # w => RequestParams(platform, v) # RequestParams(platform, w)
        /\ status = "any" => Restriction = {}
        /\ (status \notin Vocabulary /\ platform # "shopify") =>
              /\ Restriction = {}
              /\ request = RequestParams(platform, "any")
              /\ fetched = orders

\* The Lazada client has sent status=shipped for 'partial'.
C19_Witness ==
    /\ apc = "fetched"
    /\ platform = "lazada"
    /\ status = "partial"
    /\ request = { << "status", "shipped" >> }
    /\ fetched # <<>>

====
